---------------------------- MODULE Spec2Model ----------------------------
(***************************************************************************)
(* A model of the alx-polling request handlers and of the tables they     *)
(* work on.                                                                *)
(*                                                                         *)
(* The store is the four tables of database/migration.sql with their      *)
(* keys, UNIQUE constraints and ON DELETE CASCADE references.  The votes   *)
(* table is a bag of (poll_id, option_id, user_id) rows: the surrogate id  *)
(* of a row is its copy in the bag, so that UNIQUE(poll_id, option_id,     *)
(* user_id) is a property the insert has to enforce and not one the        *)
(* representation gives away.  Row-level security policies are not        *)
(* modelled: the repository carries three policy sets that disagree       *)
(* (migration.sql, schema.sql, SETUP.md) and the handlers are written to   *)
(* make every check themselves.                                            *)
(*                                                                         *)
(* Every handler runs in a request slot.  POST /api/polls/[id]/vote is     *)
(* split at its store calls, so that two requests can interleave; the      *)
(* other handlers are one step each.  Every store call the code checks     *)
(* for an error may fail.  A finished request stays in its slot with its   *)
(* response until Return hands the response out.                           *)
(*                                                                         *)
(* Polls are created, changed and deleted by the route handlers and by    *)
(* the server actions of lib/actions/polls.ts, which differ in their      *)
(* checks; both are modelled.  get_poll_results is a function of the      *)
(* tables alone: SpecTally applies it to tables drawn from bounded sets.  *)
(*                                                                         *)
(* The read requests (GET /api/polls, GET /api/polls/[id] and its results) *)
(* are one step each and leave the body of their answer in reply; they are *)
(* part of SpecRead only.  ensureProfileExists is one step inside the      *)
(* handlers; SpecProfile takes it apart into its select and its insert,    *)
(* so that two calls can interleave.                                       *)
(***************************************************************************)
EXTENDS Integers, FiniteSets, Sequences, Bags, TLC

(* ------------------------------ bounds -------------------------------- *)
MaxPolls == 2
MaxOptionIds == 4
MaxTime == 2
MaxVoters == 3
MaxTallyOptions == 3

(* ------------------------------ domains ------------------------------- *)
Users == {"u1", "u2"}
NoUser == "anon"
Callers == Users \cup {NoUser}
Reqs == {"r1", "r2"}
PollIds == 1..MaxPolls
OptionIds == 1..MaxOptionIds
NoOption == 0
NoExpiry == 0
PollStatus == {"draft", "active", "closed", "archived"}
VoteType == {"single", "multiple"}

VARIABLES now, profiles, polls, poll_options, votes, nextPollId, nextOptionId,
          req, scenario, results, reply

vars == <<now, profiles, polls, poll_options, votes, nextPollId, nextOptionId,
          req, scenario, results, reply>>

store == <<profiles, polls, poll_options, votes, nextPollId, nextOptionId>>

(* ------------------------------ responses ----------------------------- *)
Response(status, error, detail) ==
    [status |-> status, error |-> error, detail |-> detail]

Ok(status) == Response(status, "", 0)
NoResponse == Response(0, "", 0)

\* a description is its length, 0 for null
NullPoll ==
    [status |-> "none", vote_type |-> "none", max_votes_per_user |-> 0,
     is_public |-> FALSE, expires_at |-> NoExpiry, description |-> 0,
     created_by |-> NoUser]

\* a request slot: the handler's position and locals, its response once it is
\* done, the votes table as the request found it (before), whether another
\* vote request was under way when it began (overlapped) and whether a select
\* that failed was read as "no row" (misread)
IdleReq ==
    [op |-> "none", pc |-> "idle", user |-> NoUser, poll_id |-> 0,
     option_id |-> NoOption, poll |-> NullPoll, existing |-> 0,
     resp |-> NoResponse, before |-> EmptyBag, overlapped |-> FALSE,
     misread |-> FALSE]

\* what get_poll_results returned last: nothing yet
NoResults == [poll_id |-> 0, version |-> "none", rows |-> <<>>]

\* the body of the answer to a read request (GET /api/polls/[id]/results,
\* GET /api/polls/[id], GET /api/polls) that is in its slot: nothing yet
NoReply ==
    [results |-> <<>>, totalVotes |-> 0, uniqueVoters |-> 0, userVotes |-> EmptyBag,
     poll |-> NullPoll, poll_options |-> <<>>, votes |-> EmptyBag, polls |-> {}]

(* ------------------------------ the store ----------------------------- *)
VoteRow(p, o, u) == [poll_id |-> p, option_id |-> o, user_id |-> u]

BagFilter(B, Keep(_)) == [x \in {y \in DOMAIN B : Keep(y)} |-> B[x]]

\* select ... from votes where poll_id = p and user_id = u
VotesOf(B, p, u) ==
    BagFilter(B, LAMBDA v : v.poll_id = p /\ v.user_id = u)

\* select ... where poll_id = p and user_id = u and option_id = o
VotesOn(B, p, u, o) ==
    BagFilter(B, LAMBDA v : v.poll_id = p /\ v.user_id = u /\ v.option_id = o)

\* existingVotes.length
existingVotes(B, p, u) == BagCardinality(VotesOf(B, p, u))

OptionsOf(p) == {o \in poll_options : o.poll_id = p}
OptionIdsOf(p) == {o.id : o \in OptionsOf(p)}
OptionExists(o) == \E x \in poll_options : x.id = o

\* the votes table without its UNIQUE constraint
VoteInsertAllowedNoUnique(B, p, o, u) ==
    /\ p \in DOMAIN polls
    /\ OptionExists(o)
    /\ u \in profiles

\* votes: REFERENCES polls, poll_options, profiles; UNIQUE(poll_id, option_id, user_id)
VoteInsertAllowed(B, p, o, u) ==
    /\ p \in DOMAIN polls
    /\ OptionExists(o)
    /\ u \in profiles
    /\ ~BagIn(VoteRow(p, o, u), B)

\* votes.option_id without ON DELETE CASCADE
CascadeVotesPollOnly(B, livePolls, liveOptions) ==
    BagFilter(B, LAMBDA v : v.poll_id \in livePolls)

\* ON DELETE CASCADE of votes.option_id and votes.poll_id
CascadeVotes(B, livePolls, liveOptions) ==
    BagFilter(B, LAMBDA v : v.poll_id \in livePolls /\ v.option_id \in liveOptions)

\* What is explored: "seq" is one poll and requests one after the other, "two"
\* is two polls and requests one after the other, "conc" is one poll and
\* requests that overlap, "read" is one poll, requests one after the other
\* and the read requests among them.
Scenarios == {"seq", "two", "conc", "read"}
Overlap == scenario = "conc"
\* polls created; PollIds are the ids a request may name, found or not
PollLimit == IF scenario = "two" THEN 2 ELSE 1

\* the votes table as a request finds it; kept only where no other request can
\* change the table under it
Snapshot == IF Overlap THEN EmptyBag ELSE votes

Idle == \A r \in Reqs : req[r].pc = "idle"
\* the slots are interchangeable: a request takes the first free one
FirstIdle == IF req["r1"].pc = "idle" THEN "r1" ELSE "r2"
MayBegin(r) == req[r].pc = "idle" /\ r = FirstIdle /\ Idle
MayBeginVote(r) == req[r].pc = "idle" /\ r = FirstIdle /\ (Overlap \/ Idle)

(* --------------------------- authentication --------------------------- *)
\* a check that takes every caller for a signed-in user
AuthenticatedAlways(u) == TRUE

\* supabase.auth.getUser(): if (authError || !user) the request is refused
Authenticated(u) == u # NoUser

(* ------------------------------ profile ------------------------------- *)
\* ensureProfileExists: select the profile, insert it when it is missing
ensureProfileExists(u) == profiles \cup {u}

(* ------------------------------ clock --------------------------------- *)
\* The clock is read on entry to a handler and compared with expires_at only:
\* it advances between the steps of no handler, and while a poll is there
\* that can still expire.
Tick ==
    /\ now < MaxTime
    /\ \A r \in Reqs : req[r].pc \in {"idle", "done"}
    /\ \E p \in DOMAIN polls : polls[p].expires_at # NoExpiry /\ polls[p].expires_at >= now
    /\ now' = now + 1
    /\ UNCHANGED <<store, req, scenario, results, reply>>

(* ------------------- POST /api/polls/[id]/vote ------------------------ *)
\* the handler returns: what is left of the request is its response, which
\* carries the inserted vote row when the vote was cast; the table as the
\* request found it is kept with a success only
Finish(r, rec, resp) ==
    req' = [req EXCEPT ![r] =
              IF resp.status = 200
              THEN [rec EXCEPT !.pc = "done", !.resp = resp, !.poll = NullPoll, !.existing = 0]
              ELSE [IdleReq EXCEPT !.op = rec.op, !.pc = "done", !.resp = resp,
                                   !.overlapped = rec.overlapped]]

\* the poll row joined with an option of any poll
PollWithAnyOption(p, o) ==
    IF p \in DOMAIN polls /\ OptionExists(o) THEN polls[p] ELSE NullPoll

\* The poll row joined with the named option (poll_options!inner), .single()
PollWithOption(p, o) ==
    IF p \in DOMAIN polls /\ o \in OptionIdsOf(p) THEN polls[p] ELSE NullPoll

\* the checks with the status and expiry checks left out
PollCheckNoStatus(poll, u) ==
    IF poll = NullPoll THEN Response(404, "Poll or option not found", 0)
    ELSE IF ~poll.is_public /\ u # poll.created_by THEN Response(404, "Poll not found", 0)
    ELSE Ok(200)

\* The checks made on the fetched row, in the order of the code
PollCheck(poll, u) ==
    IF poll = NullPoll THEN Response(404, "Poll or option not found", 0)
    ELSE IF poll.status # "active" THEN Response(400, "Poll is not active", 0)
    ELSE IF poll.expires_at # NoExpiry /\ poll.expires_at < now
         THEN Response(400, "Poll has expired", 0)
    ELSE IF ~poll.is_public /\ u # poll.created_by THEN Response(404, "Poll not found", 0)
    ELSE Ok(200)

\* lines 14-83: authenticate, ensure the profile, parse the body, fetch the poll
CastVoteFetch(r, u, p, o) ==
    /\ MayBeginVote(r)
    /\ LET rec == [IdleReq EXCEPT !.op = "castVote", !.user = u, !.poll_id = p,
                                  !.option_id = o, !.before = Snapshot,
                                  !.overlapped = \E q \in Reqs : req[q].pc \notin {"idle", "done"}]
       IN IF ~Authenticated(u)
          THEN /\ Finish(r, rec, Response(401, "Authentication required", 0))
               /\ UNCHANGED profiles
          ELSE \/ /\ Finish(r, rec, Response(500, "Internal server error", 0))
                  /\ UNCHANGED profiles
               \/ /\ profiles' = ensureProfileExists(u)
                  /\ IF o = NoOption
                     THEN Finish(r, rec, Response(400, "Option ID is required", 0))
                     ELSE \/ Finish(r, rec, Response(500, "Failed to fetch poll", 0))
                          \/ LET poll == PollWithOption(p, o)
                                 chk == PollCheck(poll, u)
                             IN IF chk.status # 200
                                THEN Finish(r, rec, chk)
                                ELSE req' = [req EXCEPT ![r] =
                                                [rec EXCEPT !.pc = "count", !.poll = poll]]
    /\ UNCHANGED <<now, polls, poll_options, votes, nextPollId, nextOptionId, scenario, results, reply>>

\* the limit check off by one
LimitReachedOffByOne(existing, poll) == existing > poll.max_votes_per_user

\* existingVotes.length >= poll.max_votes_per_user
LimitReached(existing, poll) == existing >= poll.max_votes_per_user

\* lines 85-108: count the voter's votes on the poll, check the limit
CastVoteCount(r) ==
    /\ req[r].pc = "count"
    /\ LET rec == req[r]
           existing == existingVotes(votes, rec.poll_id, rec.user)
       IN \E fail \in BOOLEAN :
          IF fail THEN Finish(r, rec, Response(500, "Failed to check existing votes", 0))
          ELSE IF LimitReached(existing, rec.poll)
          THEN Finish(r, rec, Response(400, "You can only vote N times on this poll",
                                       rec.poll.max_votes_per_user))
          ELSE req' = [req EXCEPT ![r] =
                  [rec EXCEPT !.existing = existing,
                              !.pc = IF rec.poll.vote_type = "single" /\ existing > 0
                                     THEN "checkSingle"
                                     ELSE IF rec.poll.vote_type = "multiple"
                                     THEN "checkMultiple"
                                     ELSE "insert"]]
    /\ UNCHANGED <<now, store, scenario, results, reply>>

\* lines 112-125 and 143-156: has the voter a vote on this very option?
\* The error of this select is not looked at: a failed select reads as "no vote".
CastVoteCheck(r) ==
    /\ req[r].pc \in {"checkSingle", "checkMultiple"}
    /\ LET rec == req[r]
           found == VotesOn(votes, rec.poll_id, rec.user, rec.option_id) # EmptyBag
       IN \E fail \in BOOLEAN :
          IF found /\ ~fail
          THEN Finish(r, rec, Response(400, "You have already voted for this option", 0))
          ELSE req' = [req EXCEPT ![r].pc =
                                      IF rec.pc = "checkSingle" THEN "delete" ELSE "insert",
                                  ![r].misread = found]
    /\ UNCHANGED <<now, store, scenario, results, reply>>

\* delete from votes where poll_id = p and user_id = u
DeleteVotesOf(B, p, u) ==
    BagFilter(B, LAMBDA v : ~(v.poll_id = p /\ v.user_id = u))

\* lines 127-140: a single-choice poll drops the voter's previous vote
CastVoteDelete(r) ==
    /\ req[r].pc = "delete"
    /\ LET rec == req[r]
       IN \E fail \in BOOLEAN :
          IF fail
          THEN /\ Finish(r, rec, Response(500, "Failed to update vote", 0))
               /\ UNCHANGED votes
          ELSE /\ votes' = DeleteVotesOf(votes, rec.poll_id, rec.user)
               /\ req' = [req EXCEPT ![r].pc = "insert"]
    /\ UNCHANGED <<now, profiles, polls, poll_options, nextPollId, nextOptionId, scenario, results, reply>>

\* lines 159-203: insert the vote row, then read the tally for the response.
\* The store's message goes out as the details of the error: detail 1 stands
\* for the duplicate-key message.
CastVoteInsert(r) ==
    /\ req[r].pc = "insert"
    /\ LET rec == req[r]
       IN \E fail \in BOOLEAN :
          IF fail \/ ~VoteInsertAllowed(votes, rec.poll_id, rec.option_id, rec.user)
          THEN /\ Finish(r, rec, Response(500, "Failed to cast vote",
                                            IF ~fail /\ BagIn(VoteRow(rec.poll_id, rec.option_id, rec.user), votes)
                                            THEN 1 ELSE 0))
               /\ UNCHANGED votes
          ELSE /\ votes' = votes (+) SetToBag({VoteRow(rec.poll_id, rec.option_id, rec.user)})
               /\ Finish(r, rec, Response(200, "Vote cast successfully", 0))
    /\ UNCHANGED <<now, profiles, polls, poll_options, nextPollId, nextOptionId, scenario, results, reply>>

(* ---------------------- request bodies (inputs) ----------------------- *)
Undefined == "undefined"
Blank == " "

\* a title as its length and the length of title.trim()
GoodTitle == [len |-> 8, trimmed |-> 8]

Body(title, description, status, vote_type, max, is_public, expires_at, options) ==
    [title |-> title, description |-> description, status |-> status,
     vote_type |-> vote_type, max_votes_per_user |-> max, is_public |-> is_public,
     expires_at |-> expires_at, options |-> options]

\* A field that is left out is Undefined, and 0 for max_votes_per_user,
\* description and expires_at.  The first body leaves out every field but the
\* title and the options.
ValidBodies ==
    {Body(GoodTitle, 0, Undefined, Undefined, 0, Undefined, NoExpiry, <<"A", "B">>),
     Body(GoodTitle, 0, "active", "single", 2, "true", NoExpiry, <<"B", "A">>),
     Body(GoodTitle, 0, "active", "multiple", 2, "true", NoExpiry, <<"A", Blank, "B">>),
     Body(GoodTitle, 0, "active", "multiple", 1, "true", NoExpiry, <<"A", "B", "C">>),
     Body(GoodTitle, 5, "active", "single", 2, "false", 1, <<"A", "B">>)}

InvalidBodies ==
    {Body([len |-> 4, trimmed |-> 2], 0, Undefined, "single", 1, Undefined, NoExpiry, <<"A", "B">>),
     Body([len |-> 201, trimmed |-> 201], 0, Undefined, "single", 1, Undefined, NoExpiry, <<"A", "B">>),
     Body(GoodTitle, 1001, Undefined, "single", 1, Undefined, NoExpiry, <<"A", "B">>),
     Body(GoodTitle, 0, Undefined, "single", 1, Undefined, NoExpiry, <<"A">>),
     Body(GoodTitle, 0, Undefined, "single", 1, Undefined, NoExpiry, <<"A", Blank>>)}

\* eleven options of which two are not blank
PaddedOptions == <<"A", "B">> \o [i \in 1..9 |-> Blank]
\* eleven options, none blank, and eleven blank ones
ElevenOptions == [i \in 1..11 |-> IF i % 2 = 1 THEN "A" ELSE "B"]
ElevenBlanks == [i \in 1..11 |-> Blank]

\* bodies that break more than one rule, or the rule on the number of options
\* from above
MoreInvalidBodies ==
    {Body([len |-> 2, trimmed |-> 2], 1001, Undefined, "single", 1, Undefined, NoExpiry, <<"A">>),
     Body([len |-> 201, trimmed |-> 201], 1001, Undefined, "single", 1, Undefined, NoExpiry, <<"A", "B">>),
     Body(GoodTitle, 1001, Undefined, "single", 1, Undefined, NoExpiry, <<"A", Blank>>),
     Body(GoodTitle, 0, Undefined, "single", 1, Undefined, NoExpiry, ElevenOptions),
     Body(GoodTitle, 0, Undefined, "single", 1, Undefined, NoExpiry, ElevenBlanks)}

\* bodies whose fields are in range one by one: more votes allowed than there
\* are options, and blank options that take the list past ten entries
OverLimitBodies ==
    {Body(GoodTitle, 0, "active", "multiple", 3, "true", NoExpiry, <<"A", "B">>),
     Body(GoodTitle, 0, Undefined, "single", 1, Undefined, NoExpiry, PaddedOptions)}

Bodies == ValidBodies \cup InvalidBodies \cup MoreInvalidBodies \cup OverLimitBodies

\* String.prototype.trim on the option texts of the model
Trim(text) == IF text = Blank THEN "" ELSE text

\* options.filter(opt => opt.text && opt.text.trim().length > 0)
validOptions(options) == SelectSeq(options, LAMBDA t : t # "" /\ Trim(t) # "")

\* the bodies and statuses sent in each scenario
BodiesOf(sc) ==
    IF sc = "seq" THEN Bodies
    ELSE IF sc = "conc"
    THEN {b \in ValidBodies : b.expires_at # NoExpiry
                                \/ (b.is_public = "true" /\ b.status # Undefined
                                    /\ ~(b.vote_type = "multiple" /\ b.max_votes_per_user = 2))}
    ELSE {b \in ValidBodies : b.expires_at # NoExpiry
                                \/ (b.vote_type = "multiple" /\ b.max_votes_per_user = 2)}

\* who sends requests: where requests overlap, one signed-in user and the
\* anonymous caller
CallersOf(sc) == IF sc = "seq" THEN Callers ELSE {"u1", NoUser}
\* who creates polls: the users are interchangeable, the first one stands for
\* the creator
Creators == {"u1", NoUser}
\* who votes and removes votes
VotersOf(sc) == IF sc = "conc" THEN {"u1", NoUser} ELSE Callers

StatusesOf(sc) ==
    IF sc = "seq" THEN PollStatus
    ELSE IF sc = "conc" THEN {"closed"}
    ELSE IF sc = "read" THEN {"active", "closed"}
    ELSE {"active"}

\* validOptions.map((option, index) => ({poll_id, text: option.text.trim(), order_index: index}))
optionsToInsert(p, options, firstId) ==
    LET valid == validOptions(options)
    IN {[id |-> firstId + i - 1, poll_id |-> p, text |-> Trim(valid[i]), order_index |-> i - 1] :
            i \in 1..Len(valid)}

\* the checks on the body that POST /api/polls and PATCH /api/polls/[id] share
BodyCheck(body) ==
    IF body.title.len = 0 \/ body.title.trimmed < 3
    THEN Response(400, "Title must be at least 3 characters long", 0)
    ELSE IF body.title.len > 200
    THEN Response(400, "Title must be less than 200 characters", 0)
    ELSE IF body.description > 1000
    THEN Response(400, "Description must be less than 1000 characters", 0)
    ELSE IF Len(body.options) < 2
    THEN Response(400, "At least 2 options are required", 0)
    ELSE IF Len(validOptions(body.options)) < 2
    THEN Response(400, "At least 2 valid options are required", 0)
    ELSE IF Len(validOptions(body.options)) > 10
    THEN Response(400, "Maximum 10 options allowed", 0)
    ELSE Ok(200)

\* the option ids of the model suffice for the rows the request may insert
IdsLeft(options) ==
    \/ Len(validOptions(options)) > 10
    \/ nextOptionId + Len(validOptions(options)) - 1 <= MaxOptionIds

Done(r, op, u, p, o, resp) ==
    req' = [req EXCEPT ![r] =
              [IdleReq EXCEPT !.op = op, !.pc = "done", !.resp = resp,
                              !.before = IF resp.status \in {200, 201} THEN Snapshot ELSE EmptyBag]]

(* -------------------------- POST /api/polls --------------------------- *)
\* lines 399-408: the defaults of the fields that are left out
MaxVotesGiven(body) ==
    IF body.max_votes_per_user = 0 THEN 1 ELSE body.max_votes_per_user

NewPoll(body, u) ==
    [status |-> IF body.status = Undefined THEN "draft" ELSE body.status,
     vote_type |-> IF body.vote_type = Undefined THEN "single" ELSE body.vote_type,
     max_votes_per_user |-> MaxVotesGiven(body),
     is_public |-> body.is_public # "false",
     expires_at |-> body.expires_at,
     description |-> body.description,
     created_by |-> u]

\* lines 456-477: vote settings and expiry, after the shared checks
CreateCheck(body) ==
    LET chk == BodyCheck(body)
        vote_type == IF body.vote_type = Undefined THEN "single" ELSE body.vote_type
    IN IF chk.status # 200 THEN chk
       ELSE IF vote_type = "multiple" /\ MaxVotesGiven(body) < 1
       THEN Response(400, "Max votes per user must be at least 1 for multiple choice polls", 0)
       ELSE IF MaxVotesGiven(body) > Len(validOptions(body.options))
       THEN Response(400, "Max votes per user cannot exceed number of options", 0)
       ELSE IF body.expires_at # NoExpiry /\ body.expires_at <= now
       THEN Response(400, "Expiration date must be in the future", 0)
       ELSE Ok(201)

CreatePoll(r, u, body) ==
    /\ MayBegin(r)
    /\ nextPollId <= PollLimit
    /\ body \in BodiesOf(scenario)
    /\ IdsLeft(body.options)
    /\ IF ~Authenticated(u)
       THEN /\ Done(r, "createPoll", u, 0, NoOption, Response(401, "Authentication required", 0))
            /\ UNCHANGED store
       ELSE \/ /\ Done(r, "createPoll", u, 0, NoOption, Response(500, "Internal server error", 0))
               /\ UNCHANGED store
            \/ /\ profiles' = ensureProfileExists(u)
               /\ LET chk == CreateCheck(body)
                      p == nextPollId
                  IN IF chk.status # 201
                     THEN /\ Done(r, "createPoll", u, 0, NoOption, chk)
                          /\ UNCHANGED <<polls, poll_options, votes, nextPollId, nextOptionId>>
                     ELSE \E outcome \in {"ok", "pollFail", "optionsFail", "cleanupFail"} :
                          CASE outcome = "pollFail" ->
                                  /\ Done(r, "createPoll", u, 0, NoOption,
                                          Response(500, "Failed to create poll", 0))
                                  /\ UNCHANGED <<polls, poll_options, votes, nextPollId, nextOptionId>>
                            [] outcome = "optionsFail" ->
                                  \* the poll row is inserted and deleted again
                                  /\ Done(r, "createPoll", u, p, NoOption,
                                          Response(500, "Failed to create poll options", 0))
                                  /\ UNCHANGED <<polls, poll_options, votes, nextPollId, nextOptionId>>
                            [] outcome = "cleanupFail" ->
                                  \* the result of the cleanup delete is not looked at
                                  /\ Done(r, "createPoll", u, p, NoOption,
                                          Response(500, "Failed to create poll options", 0))
                                  /\ polls' = (p :> NewPoll(body, u)) @@ polls
                                  /\ nextPollId' = nextPollId + 1
                                  /\ UNCHANGED <<poll_options, votes, nextOptionId>>
                            [] outcome = "ok" ->
                                  \* lines 524-554: the created poll is fetched for the
                                  \* response; when the fetch fails the answer is 200
                                  /\ \E code \in {200, 201} :
                                        Done(r, "createPoll", u, p, NoOption, Ok(code))
                                  /\ polls' = (p :> NewPoll(body, u)) @@ polls
                                  /\ poll_options' = poll_options \cup
                                         optionsToInsert(p, body.options, nextOptionId)
                                  /\ nextPollId' = nextPollId + 1
                                  /\ nextOptionId' = nextOptionId + Len(validOptions(body.options))
                                  /\ UNCHANGED votes
    /\ UNCHANGED <<now, scenario, results, reply>>

(* ------------------------ PATCH /api/polls/[id] ----------------------- *)
\* an update that leaves a column as it is when the field is left out
UpdatedPollKeeping(old, body) ==
    [old EXCEPT
       !.status = IF body.status = Undefined THEN old.status ELSE body.status,
       !.vote_type = IF body.vote_type = Undefined THEN old.vote_type ELSE body.vote_type,
       !.max_votes_per_user =
            IF body.max_votes_per_user = 0 THEN old.max_votes_per_user
            ELSE body.max_votes_per_user,
       !.is_public = IF body.is_public = Undefined THEN old.is_public
                     ELSE body.is_public # "false",
       !.expires_at = IF body.expires_at = NoExpiry THEN old.expires_at ELSE body.expires_at,
       !.description = IF body.description = 0 THEN old.description ELSE body.description]

\* lines 175-183: every settable column is written, with a default for a missing field
UpdatedPoll(old, body) ==
    [old EXCEPT
       !.status = IF body.status = Undefined THEN "active" ELSE body.status,
       !.vote_type = IF body.vote_type = Undefined THEN "single" ELSE body.vote_type,
       !.max_votes_per_user =
            IF body.max_votes_per_user = 0 THEN 1 ELSE body.max_votes_per_user,
       !.is_public = body.is_public # "false",
       !.expires_at = body.expires_at,
       !.description = body.description]

UpdatePoll(r, u, p, body) ==
    /\ MayBegin(r)
    /\ body \in BodiesOf(scenario)
    /\ IdsLeft(body.options)
    /\ IF ~Authenticated(u)
       THEN /\ Done(r, "updatePoll", u, p, NoOption, Response(401, "Authentication required", 0))
            /\ UNCHANGED store
       ELSE \/ /\ Done(r, "updatePoll", u, p, NoOption, Response(500, "Internal server error", 0))
               /\ UNCHANGED store
            \/ /\ profiles' = ensureProfileExists(u)
               /\ UNCHANGED nextPollId
               /\ LET chk == BodyCheck(body)
                      stay == UNCHANGED <<polls, poll_options, votes, nextOptionId>>
                  IN IF chk.status # 200
                     THEN Done(r, "updatePoll", u, p, NoOption, chk) /\ stay
                     ELSE IF p \notin DOMAIN polls
                     THEN Done(r, "updatePoll", u, p, NoOption, Response(404, "Poll not found", 0))
                          /\ stay
                     ELSE
                       \/ Done(r, "updatePoll", u, p, NoOption, Response(500, "Failed to fetch poll", 0))
                          /\ stay
                       \/ IF polls[p].created_by # u
                          THEN Done(r, "updatePoll", u, p, NoOption,
                                    Response(403, "You can only edit polls you created", 0)) /\ stay
                          ELSE \E outcome \in {"ok", "updateFail", "deleteFail", "insertFail"} :
                            IF outcome = "updateFail"
                            THEN Done(r, "updatePoll", u, p, NoOption,
                                      Response(500, "Failed to update poll", 0)) /\ stay
                            ELSE
                              /\ polls' = [polls EXCEPT ![p] = UpdatedPoll(polls[p], body)]
                              /\ IF outcome = "deleteFail"
                                 THEN /\ Done(r, "updatePoll", u, p, NoOption,
                                              Response(500, "Failed to update poll options", 1))
                                      /\ UNCHANGED <<poll_options, votes, nextOptionId>>
                                 ELSE LET kept == poll_options \ OptionsOf(p)
                                          added == IF outcome = "insertFail" THEN {}
                                                   ELSE optionsToInsert(p, body.options, nextOptionId)
                                      IN /\ poll_options' = kept \cup added
                                         /\ votes' = CascadeVotes(votes, DOMAIN polls,
                                                                  {o.id : o \in kept})
                                         /\ nextOptionId' = nextOptionId + Cardinality(added)
                                         /\ IF outcome = "insertFail"
                                            THEN Done(r, "updatePoll", u, p, NoOption,
                                                      Response(500, "Failed to update poll options", 2))
                                            ELSE \* the finished request keeps the row as it found it
                                                 req' = [req EXCEPT ![r] =
                                                   [IdleReq EXCEPT !.op = "updatePoll", !.pc = "done",
                                                                   !.resp = Ok(200), !.before = Snapshot,
                                                                   !.poll = polls[p]]]
    /\ UNCHANGED <<now, scenario, results, reply>>

(* --------------------------- updatePollStatus -------------------------- *)
\* an update that leaves an archived poll as it is
SetStatusUnlessArchived(poll, status) ==
    IF poll.status = "archived" THEN poll ELSE [poll EXCEPT !.status = status]

\* .update({status, updated_at})
SetStatus(poll, status) == [poll EXCEPT !.status = status]

\* update polls set status where id = p and created_by = u, .single();
\* the finished request keeps the row as it found it
UpdatePollStatus(r, u, p, status) ==
    /\ MayBegin(r)
    /\ status \in StatusesOf(scenario)
    /\ IF ~Authenticated(u) \/ p \notin DOMAIN polls
       THEN /\ Done(r, "updatePollStatus", u, p, NoOption,
                    IF ~Authenticated(u) THEN Response(401, "You must be logged in to update a poll", 0)
                    ELSE Response(500, "Failed to update poll status", 0))
            /\ UNCHANGED polls
       ELSE \E fail \in BOOLEAN :
            IF fail \/ polls[p].created_by # u
            THEN /\ Done(r, "updatePollStatus", u, p, NoOption,
                         Response(500, "Failed to update poll status", 0))
                 /\ UNCHANGED polls
            ELSE /\ polls' = [polls EXCEPT ![p] = SetStatus(polls[p], status)]
                 /\ req' = [req EXCEPT ![r] =
                              [IdleReq EXCEPT !.op = "updatePollStatus", !.pc = "done",
                                              !.resp = Ok(200), !.before = Snapshot,
                                              !.poll = polls[p]]]
    /\ UNCHANGED <<now, profiles, poll_options, votes, nextPollId, nextOptionId, scenario, results, reply>>

(* ------------------------ DELETE /api/polls/[id] ----------------------- *)
\* an owner check that lets everyone through
OwnsAny(poll, u) == TRUE

\* poll.created_by !== user.id
Owns(poll, u) == poll.created_by = u

\* delete from polls where id = p, with the cascade to poll_options and votes
PollsWithout(p) == [q \in DOMAIN polls \ {p} |-> polls[q]]

\* the delete without the cascade: options and votes stay behind
DeletePollRowsNoCascade(p) ==
    /\ polls' = PollsWithout(p)
    /\ poll_options' = poll_options
    /\ votes' = votes

DeletePollRows(p) ==
    /\ polls' = PollsWithout(p)
    /\ poll_options' = poll_options \ OptionsOf(p)
    /\ votes' = CascadeVotes(votes, DOMAIN polls \ {p}, {o.id : o \in poll_options \ OptionsOf(p)})

DeletePoll(r, u, p) ==
    /\ MayBegin(r)
    /\ LET stay == UNCHANGED <<polls, poll_options, votes>>
       IN IF ~Authenticated(u)
          THEN Done(r, "DELETE", u, p, NoOption, Response(401, "Authentication required", 0)) /\ stay
          ELSE IF p \notin DOMAIN polls
          THEN Done(r, "DELETE", u, p, NoOption, Response(404, "Poll not found", 0)) /\ stay
          ELSE \/ Done(r, "DELETE", u, p, NoOption, Response(500, "Failed to fetch poll", 0)) /\ stay
               \/ IF ~Owns(polls[p], u)
                  THEN Done(r, "DELETE", u, p, NoOption,
                            Response(403, "You can only delete polls you created", 0)) /\ stay
                  ELSE \/ Done(r, "DELETE", u, p, NoOption,
                               Response(500, "Failed to delete poll", 0)) /\ stay
                       \/ /\ DeletePollRows(p)
                          /\ Done(r, "DELETE", u, p, NoOption,
                                  Response(200, "Poll deleted successfully", 0))
    /\ UNCHANGED <<now, profiles, nextPollId, nextOptionId, scenario, results, reply>>

(* ----------------------- deletePoll (server action) -------------------- *)
\* A server action throws its error: the status of the response stands for
\* the class of the error thrown.
deletePoll(r, u, p) ==
    /\ MayBegin(r)
    /\ LET stay == UNCHANGED <<polls, poll_options, votes>>
       IN IF ~Authenticated(u)
          THEN Done(r, "deletePoll", u, p, NoOption,
                    Response(401, "You must be logged in to delete a poll", 0)) /\ stay
          ELSE IF p \notin DOMAIN polls
          THEN Done(r, "deletePoll", u, p, NoOption, Response(404, "Poll not found", 0)) /\ stay
          ELSE \/ Done(r, "deletePoll", u, p, NoOption, Response(404, "Poll not found", 1)) /\ stay
               \/ IF ~Owns(polls[p], u)
                  THEN Done(r, "deletePoll", u, p, NoOption,
                            Response(403, "You can only delete polls that you created", 0)) /\ stay
                  ELSE \/ Done(r, "deletePoll", u, p, NoOption,
                               Response(500, "Failed to delete poll", 0)) /\ stay
                       \/ /\ DeletePollRows(p)
                          /\ Done(r, "deletePoll", u, p, NoOption, Ok(200))
    /\ UNCHANGED <<now, profiles, nextPollId, nextOptionId, scenario, results, reply>>

(* ----------------------- createPoll (server action) -------------------- *)
\* polls.title: CHECK (char_length(title) >= 3 AND char_length(title) <= 200),
\* on the trimmed title that is inserted
TitleFits(title) == title.trimmed >= 3 /\ title.trimmed <= 200

\* lines 31-59: the checks of the action; the number of options is checked
\* on the list as submitted, before the blank ones are dropped
ActionCheck(data) ==
    IF data.title.trimmed = 0 \/ data.title.len < 3
    THEN Response(400, "Poll title must be at least 3 characters long", 0)
    ELSE IF data.title.len > 200
    THEN Response(400, "Poll title must be less than 200 characters", 0)
    ELSE IF data.description > 1000
    THEN Response(400, "Poll description must be less than 1000 characters", 0)
    ELSE IF Len(data.options) < 2
    THEN Response(400, "Poll must have at least 2 options", 0)
    ELSE IF Len(data.options) > 10
    THEN Response(400, "Poll cannot have more than 10 options", 0)
    ELSE IF Len(validOptions(data.options)) < 2
    THEN Response(400, "Poll must have at least 2 valid options", 0)
    ELSE Ok(200)

\* lines 65-75: the row the action inserts
ActionPoll(data, u) ==
    [status |-> "active",
     vote_type |-> IF data.vote_type = Undefined THEN "single" ELSE data.vote_type,
     max_votes_per_user |-> IF data.max_votes_per_user = 0 THEN 1 ELSE data.max_votes_per_user,
     is_public |-> data.is_public # "false",
     expires_at |-> data.expires_at,
     description |-> data.description,
     created_by |-> u]

createPoll(r, u, data) ==
    /\ MayBegin(r)
    /\ nextPollId <= PollLimit
    /\ data \in BodiesOf(scenario)
    /\ IdsLeft(data.options)
    /\ IF ~Authenticated(u)
       THEN /\ Done(r, "createPollAction", u, 0, NoOption,
                    Response(401, "You must be logged in to create a poll", 0))
            /\ UNCHANGED store
       ELSE \/ /\ Done(r, "createPollAction", u, 0, NoOption,
                       Response(500, "Failed to verify user profile", 0))
               /\ UNCHANGED store
            \/ /\ profiles' = ensureProfileExists(u)
               /\ LET chk == ActionCheck(data)
                      p == nextPollId
                      stay == UNCHANGED <<polls, poll_options, votes, nextPollId, nextOptionId>>
                  IN IF chk.status # 200
                     THEN Done(r, "createPollAction", u, 0, NoOption, chk) /\ stay
                     ELSE
                       \/ Done(r, "createPollAction", u, 0, NoOption,
                               Response(500, "Failed to create poll", 0)) /\ stay
                       \/ /\ TitleFits(data.title)
                          /\ \/ \* the poll row is inserted and deleted again
                                Done(r, "createPollAction", u, p, NoOption,
                                     Response(500, "Failed to create poll options", 0)) /\ stay
                             \/ \* the result of the cleanup delete is not looked at
                                /\ Done(r, "createPollAction", u, p, NoOption,
                                        Response(500, "Failed to create poll options", 0))
                                /\ polls' = (p :> ActionPoll(data, u)) @@ polls
                                /\ nextPollId' = nextPollId + 1
                                /\ UNCHANGED <<poll_options, votes, nextOptionId>>
                             \/ /\ Done(r, "createPollAction", u, p, NoOption, Ok(200))
                                /\ polls' = (p :> ActionPoll(data, u)) @@ polls
                                /\ poll_options' = poll_options \cup
                                       optionsToInsert(p, data.options, nextOptionId)
                                /\ nextPollId' = nextPollId + 1
                                /\ nextOptionId' = nextOptionId + Len(validOptions(data.options))
                                /\ UNCHANGED votes
    /\ UNCHANGED <<now, scenario, results, reply>>

(* ------------------- DELETE /api/polls/[id]/vote ----------------------- *)
\* the delete query that never narrows to the option
RemoveVoteQueryAllOptions(B, p, u, o) ==
    BagFilter(B, LAMBDA v : ~(v.poll_id = p /\ v.user_id = u))

\* lines 238-250: the delete query, narrowed to one option when optionId is given
RemoveVoteQuery(B, p, u, o) ==
    IF o # NoOption
    THEN BagFilter(B, LAMBDA v : ~(v.poll_id = p /\ v.user_id = u /\ v.option_id = o))
    ELSE BagFilter(B, LAMBDA v : ~(v.poll_id = p /\ v.user_id = u))

RemoveVote(r, u, p, o) ==
    /\ MayBegin(r)
    /\ IF ~Authenticated(u)
       THEN /\ Done(r, "removeVote", u, p, o, Response(401, "Authentication required", 0))
            /\ UNCHANGED votes
       ELSE \E fail \in BOOLEAN :
            IF fail
            THEN /\ Done(r, "removeVote", u, p, o, Response(500, "Failed to remove vote", 0))
                 /\ UNCHANGED votes
            ELSE /\ votes' = RemoveVoteQuery(votes, p, u, o)
                 /\ Done(r, "removeVote", u, p, o, Response(200, "Vote removed successfully", 0))
    /\ UNCHANGED <<now, profiles, polls, poll_options, nextPollId, nextOptionId, scenario, results, reply>>

\* The response leaves the handler
Return(r) ==
    /\ req[r].pc = "done"
    /\ req' = [req EXCEPT ![r] = IdleReq]
    /\ reply' = NoReply
    /\ UNCHANGED <<now, store, scenario, results>>

InitStore ==
    /\ now = 1
    /\ profiles = {}
    /\ polls = <<>>
    /\ poll_options = {}
    /\ votes = EmptyBag
    /\ nextPollId = 1
    /\ nextOptionId = 1
    /\ req = [r \in Reqs |-> IdleReq]
    /\ results = NoResults
    /\ reply = NoReply

Init == InitStore /\ scenario = "seq"
InitTwo == InitStore /\ scenario = "two"
InitConc == InitStore /\ scenario = "conc"

Next ==
    \/ Tick
    \/ \E r \in Reqs, u \in VotersOf(scenario), p \in PollIds, o \in OptionIds \cup {NoOption} :
          CastVoteFetch(r, u, p, o)
    \/ \E r \in Reqs : CastVoteCount(r)
    \/ \E r \in Reqs : CastVoteCheck(r)
    \/ \E r \in Reqs : CastVoteDelete(r)
    \/ \E r \in Reqs : CastVoteInsert(r)
    \/ \E r \in Reqs, u \in Creators, body \in Bodies : CreatePoll(r, u, body)
    \/ \E r \in Reqs, u \in CallersOf(scenario), p \in PollIds, body \in Bodies : UpdatePoll(r, u, p, body)
    \/ \E r \in Reqs, u \in CallersOf(scenario), p \in PollIds, s \in PollStatus :
          UpdatePollStatus(r, u, p, s)
    \/ \E r \in Reqs, u \in VotersOf(scenario), p \in PollIds, o \in OptionIds \cup {NoOption} :
          RemoveVote(r, u, p, o)
    \/ \E r \in Reqs, u \in CallersOf(scenario), p \in PollIds : DeletePoll(r, u, p)
    \/ \E r \in Reqs, u \in CallersOf(scenario), p \in PollIds : deletePoll(r, u, p)
    \/ \E r \in Reqs, u \in Creators, data \in Bodies : createPoll(r, u, data)
    \/ \E r \in Reqs : Return(r)

Spec == Init /\ [][Next]_vars
SpecTwo == InitTwo /\ [][Next]_vars
SpecConc == InitConc /\ [][Next]_vars

(* -------------------------- get_poll_results -------------------------- *)
\* The repository defines the function twice, in database/migration.sql and
\* in database/schema.sql, both with CREATE OR REPLACE: the one installed
\* last is the one that runs.
Versions == {"migration", "schema"}

\* the texts in the order of the collation
Texts == <<"A", "B">>
TextRank(t) == CHOOSE i \in 1..Len(Texts) : Texts[i] = t

\* COUNT(v.id) of poll_options po LEFT JOIN votes v ON po.id = v.option_id,
\* counted over the poll instead of the option
VoteCountOfPoll(B, o) == BagCardinality(BagFilter(B, LAMBDA v : v.poll_id = o.poll_id))

\* COUNT(v.id) of poll_options po LEFT JOIN votes v ON po.id = v.option_id
VoteCount(B, o) == BagCardinality(BagFilter(B, LAMBDA v : v.option_id = o.id))

RECURSIVE SumCounts(_, _)
SumCounts(B, S) ==
    IF S = {} THEN 0
    ELSE LET o == CHOOSE x \in S : TRUE
         IN VoteCount(B, o) + SumCounts(B, S \ {o})

\* migration.sql: SELECT SUM(vote_count) FROM vote_counts;
\* schema.sql: SELECT COUNT(*) FROM votes WHERE poll_id = poll_uuid
TotalVotes(B, O, p, version) ==
    IF version = "migration" THEN SumCounts(B, {o \in O : o.poll_id = p})
    ELSE BagCardinality(BagFilter(B, LAMBDA v : v.poll_id = p))

\* a rounding that cuts the digits off
RoundDown(count, total) == (count * 10000) \div total

\* ROUND((count::NUMERIC / total::NUMERIC) * 100, 2), in hundredths of a
\* percent: ROUND of a NUMERIC rounds a half away from zero.  The quotient
\* carries at least sixteen significant digits, far more than a total of the
\* model needs.
Round(count, total) == (2 * count * 10000 + total) \div (2 * total)

\* CASE WHEN total > 0 THEN ROUND(...) ELSE 0 END
Percentage(count, total) == IF total > 0 THEN Round(count, total) ELSE 0

\* the row of option o
ResultRow(B, O, p, version, o) ==
    [option_id |-> o.id, option_text |-> o.text, vote_count |-> VoteCount(B, o),
     percentage |-> Percentage(VoteCount(B, o), TotalVotes(B, O, p, version))]

OrderIndexOf(O, id) == (CHOOSE o \in O : o.id = id).order_index

\* row a must come before row b:
\* migration.sql: ORDER BY vc.vote_count DESC, vc.option_text ASC;
\* schema.sql: ORDER BY po.order_index, vote_count DESC
SortsBefore(O, version, a, b) ==
    IF version = "migration"
    THEN \/ a.vote_count > b.vote_count
         \/ a.vote_count = b.vote_count /\ TextRank(a.option_text) < TextRank(b.option_text)
    ELSE \/ OrderIndexOf(O, a.option_id) < OrderIndexOf(O, b.option_id)
         \/ /\ OrderIndexOf(O, a.option_id) = OrderIndexOf(O, b.option_id)
            /\ a.vote_count > b.vote_count

\* every order of the rows that ORDER BY allows: rows that the sort keys do
\* not tell apart come in any order
OrderedRows(O, version, rows) ==
    LET n == Cardinality(rows)
    IN {f \in [1..n -> rows] :
           /\ \A i, j \in 1..n : i # j => f[i] # f[j]
           /\ \A i, j \in 1..n : i < j => ~SortsBefore(O, version, f[j], f[i])}

get_poll_results(B, O, p, version) ==
    OrderedRows(O, version, {ResultRow(B, O, p, version, o) : o \in {x \in O : x.poll_id = p}})

\* supabase.rpc("get_poll_results", {poll_uuid})
GetPollResults(p, version) ==
    /\ \E rows \in get_poll_results(votes, poll_options, p, version) :
          results' = [poll_id |-> p, version |-> version, rows |-> rows]
    /\ UNCHANGED <<now, store, req, scenario, reply>>

\* The tables get_poll_results is applied to: poll 1 with up to
\* MaxTallyOptions options in display order, texts that may repeat, and up to
\* MaxVoters votes on each option; poll 2 with one option and a vote on it.
Voter(j) == "v" \o ToString(j)

TallyOptions(texts) ==
    {[id |-> i, poll_id |-> 1, text |-> texts[i], order_index |-> i - 1] : i \in 1..Len(texts)}
    \cup {[id |-> Len(texts) + 1, poll_id |-> 2, text |-> "A", order_index |-> 0]}

TallyVotes(counts) ==
    SetToBag({VoteRow(1, x[1], Voter(x[2])) :
                 x \in {y \in (1..Len(counts)) \X (1..MaxVoters) : y[2] <= counts[y[1]]}})
    (+) SetToBag({VoteRow(2, Len(counts) + 1, Voter(1))})

TallyPoll ==
    [status |-> "active", vote_type |-> "multiple", max_votes_per_user |-> 1,
     is_public |-> TRUE, expires_at |-> NoExpiry, description |-> 0, created_by |-> "u1"]

InitTally ==
    /\ now = 1
    /\ profiles = {"u1"} \cup {Voter(j) : j \in 1..MaxVoters}
    /\ polls = (1 :> TallyPoll) @@ (2 :> TallyPoll)
    /\ \E n \in 0..MaxTallyOptions :
       \E texts \in [1..n -> {Texts[i] : i \in 1..Len(Texts)}], counts \in [1..n -> 0..MaxVoters] :
          /\ poll_options = TallyOptions(texts)
          /\ votes = TallyVotes(counts)
          /\ nextOptionId = n + 2
    /\ nextPollId = 3
    /\ req = [r \in Reqs |-> IdleReq]
    /\ scenario = "seq"
    /\ results = NoResults
    /\ reply = NoReply

NextTally == \E p \in PollIds, version \in Versions : GetPollResults(p, version)

SpecTally == InitTally /\ [][NextTally]_vars

(* ----------------------------- read requests -------------------------- *)
\* A read request is one step: it answers from the tables as they are.  Its
\* answers are the set of (response, body) pairs the handler can give, one
\* for every outcome of its store calls.
Answer(resp, body) == [resp |-> resp, reply |-> body]

\* a visibility check that lets the anonymous caller through
AccessibleToAnon(poll, u) == poll.is_public \/ u = NoUser \/ u = poll.created_by

\* !(!poll.is_public && (!user || user.id !== poll.created_by))
Accessible(poll, u) == poll.is_public \/ (u # NoUser /\ u = poll.created_by)

\* poll.poll_options.sort((a, b) => a.order_index - b.order_index)
SortedOptions(p) ==
    LET n == Cardinality(OptionsOf(p))
    IN CHOOSE f \in [1..n -> OptionsOf(p)] :
          /\ \A i, j \in 1..n : i # j => f[i] # f[j]
          /\ \A i, j \in 1..n : i < j => f[i].order_index <= f[j].order_index

\* select ... from votes where poll_id = p
VotesOfPoll(B, p) == BagFilter(B, LAMBDA v : v.poll_id = p)

\* votes.map((vote) => vote.option_id): the option ids, one for every row
OptionIdsIn(B) ==
    [o \in {v.option_id : v \in DOMAIN B} |->
        BagCardinality(BagFilter(B, LAMBDA v : v.option_id = o))]

\* new Set(uniqueVotersData.map((v) => v.user_id)).size
uniqueUserIds(B) == Cardinality({v.user_id : v \in DOMAIN B})

\* GET /api/polls/[id], lines 15-55
PollAnswers(u, p) ==
    {Answer(Response(500, "Failed to fetch poll", 0), NoReply)}
    \cup
    {IF p \notin DOMAIN polls \/ ~Accessible(polls[p], u)
     THEN Answer(Response(404, "Poll not found", 0), NoReply)
     ELSE Answer(Ok(200), [NoReply EXCEPT !.poll = polls[p],
                                          !.poll_options = SortedOptions(p),
                                          !.votes = VotesOfPoll(votes, p)])}

\* GET /api/polls/[id]/results, lines 19-124.  The errors of the query for
\* the caller's votes and of the queries for the voters are not answered
\* with an error: the caller's votes are then [] and the voters 0.
ResultsAnswers(u, p) ==
    {Answer(Response(500, "Failed to fetch poll", 0), NoReply)}
    \cup
    (IF p \notin DOMAIN polls \/ ~Accessible(polls[p], u)
     THEN {Answer(Response(404, "Poll not found", 0), NoReply)}
     ELSE {Answer(Response(500, "Failed to fetch poll results", 0), NoReply),
           Answer(Response(500, "Failed to fetch vote count", 0), NoReply)}
          \cup
          {Answer(Ok(200),
                  [NoReply EXCEPT
                     !.results = rows,
                     !.totalVotes = BagCardinality(VotesOfPoll(votes, p)),
                     !.userVotes = IF u = NoUser \/ votesError THEN EmptyBag
                                   ELSE OptionIdsIn(VotesOf(votes, p, u)),
                     !.uniqueVoters = IF uniqueVotersError THEN 0
                                      ELSE uniqueUserIds(VotesOfPoll(votes, p)),
                     !.poll = polls[p]]) :
             rows \in UNION {get_poll_results(votes, poll_options, p, version) :
                               version \in Versions},
             votesError \in BOOLEAN, uniqueVotersError \in BOOLEAN})

\* the query parameters of GET /api/polls: status and userId, each of them
\* given or not; page and limit are left at their defaults, 1 and 10, which
\* the polls of the model fit in
NoParam == "none"

\* GET /api/polls, lines 321-335: the filters on the polls table
Listed(u, userId, status) ==
    LET own == userId # NoParam /\ u # NoUser /\ u = userId
    IN {p \in DOMAIN polls :
          /\ IF own THEN polls[p].created_by = userId
             ELSE /\ polls[p].is_public
                  /\ (status = NoParam \/ status = "active") => polls[p].status = "active"
          /\ (status # NoParam /\ own) => polls[p].status = status}

ListAnswers(u, userId, status) ==
    {Answer(Response(500, "Failed to fetch polls", 0), NoReply),
     Answer(Ok(200), [NoReply EXCEPT !.polls = Listed(u, userId, status)])}

\* the read request answers a and stays in its slot with the answer
Reads(r, op, a) ==
    /\ MayBegin(r)
    /\ req' = [req EXCEPT ![r] = [IdleReq EXCEPT !.op = op, !.pc = "done", !.resp = a.resp]]
    /\ reply' = a.reply
    /\ UNCHANGED <<now, store, scenario, results>>

GetPoll(r, u, p) == \E a \in PollAnswers(u, p) : Reads(r, "getPoll", a)

GetResults(r, u, p) == \E a \in ResultsAnswers(u, p) : Reads(r, "getResults", a)

ListPolls(r, u, userId, status) ==
    \E a \in ListAnswers(u, userId, status) : Reads(r, "listPolls", a)

InitRead == InitStore /\ scenario = "read"

NextRead ==
    \/ Next
    \/ \E r \in Reqs, u \in Callers, p \in PollIds : GetPoll(r, u, p)
    \/ \E r \in Reqs, u \in Callers, p \in PollIds : GetResults(r, u, p)
    \/ \E r \in Reqs, u \in Callers, userId \in Users \cup {NoParam},
          status \in PollStatus \cup {NoParam} : ListPolls(r, u, userId, status)

SpecRead == InitRead /\ [][NextRead]_vars

(* ------------------------ ensureProfileExists -------------------------- *)
\* The function in its two store calls, so that two calls can interleave:
\* the select of the profile and, when there is none, the insert.  profiles.id
\* is the primary key: the insert of a profile that is there fails, and
\* detail 1 of the error stands for the duplicate key.
ProfileResult(created) ==
    Response(200, IF created THEN "created" ELSE "not created", 0)

\* lines 9-24: select the profile
EnsureProfileSelect(r, u) ==
    /\ req[r].pc = "idle"
    /\ LET rec == [IdleReq EXCEPT !.op = "ensureProfileExists", !.user = u,
                                  !.overlapped = \E q \in Reqs : req[q].pc \notin {"idle", "done"}]
       IN \/ req' = [req EXCEPT ![r] =
                       [rec EXCEPT !.pc = "done",
                                   !.resp = Response(500, "Failed to check profile existence", 0)]]
          \/ req' = [req EXCEPT ![r] =
                       IF u \in profiles
                       THEN [rec EXCEPT !.pc = "done", !.resp = ProfileResult(FALSE)]
                       ELSE [rec EXCEPT !.pc = "profileInsert"]]
    /\ UNCHANGED <<now, store, scenario, results, reply>>

\* lines 26-48: insert the profile
EnsureProfileInsert(r) ==
    /\ req[r].pc = "profileInsert"
    /\ LET u == req[r].user
       IN \E fail \in BOOLEAN :
          IF fail \/ u \in profiles
          THEN /\ req' = [req EXCEPT ![r].pc = "done",
                                     ![r].resp = Response(500, "Failed to create user profile",
                                                          IF fail THEN 0 ELSE 1)]
               /\ UNCHANGED profiles
          ELSE /\ profiles' = profiles \cup {u}
               /\ req' = [req EXCEPT ![r].pc = "done", ![r].resp = ProfileResult(TRUE)]
    /\ UNCHANGED <<now, polls, poll_options, votes, nextPollId, nextOptionId, scenario, results, reply>>

InitProfile == InitStore /\ scenario = "conc"

NextProfile ==
    \/ \E r \in Reqs, u \in Users : EnsureProfileSelect(r, u)
    \/ \E r \in Reqs : EnsureProfileInsert(r)
    \/ \E r \in Reqs : Return(r)

SpecProfile == InitProfile /\ [][NextProfile]_vars

(* ------------------------------- claims ------------------------------- *)
\* with this step a request begins in slot r that is handled by op
Begins(r, op) == req[r].pc = "idle" /\ req'[r].op = op

\* the vote request in slot r ends with this step
CastVoteEnds(r) ==
    /\ req[r].op = "castVote"
    /\ req[r].pc \notin {"idle", "done"}
    /\ req'[r].pc = "done"

\* the one row of voter u on poll p is on option o
HoldsOnly(B, p, u, o) == VotesOf(B, p, u) = SetToBag({VoteRow(p, o, u)})

\* C1: on a single-choice poll that passed the status, expiry and visibility
\* checks, a vote for option B by a voter who holds one vote, on another
\* option A, ends in success with the voter holding exactly the vote on B
\* (or in a store error).
C1_SingleChoiceReplaces ==
    [][\A r \in Reqs :
         (/\ CastVoteEnds(r)
          /\ req[r].poll.vote_type = "single"
          /\ \E a \in OptionIds \ {req[r].option_id} :
                 HoldsOnly(req[r].before, req[r].poll_id, req[r].user, a))
         => \/ req'[r].resp.status = 500
            \/ /\ req'[r].resp.status = 200
               /\ HoldsOnly(votes', req[r].poll_id, req[r].user, req[r].option_id)]_vars

\* C2: a vote for an option the voter already holds a vote on ends with the
\* "already voted for this option" error (or a store error) and leaves the
\* votes table as it was, whatever the vote type and the number of votes held.
C2_RevoteRejected ==
    [][\A r \in Reqs :
         (/\ CastVoteEnds(r)
          /\ BagIn(VoteRow(req[r].poll_id, req[r].option_id, req[r].user), req[r].before))
         => /\ \/ req'[r].resp.status = 500
               \/ req'[r].resp = Response(400, "You have already voted for this option", 0)
            /\ votes' = req[r].before]_vars

\* C3: with requests one after the other, no step that leaves the polls table
\* alone takes a voter from at most max_votes_per_user votes on a poll to more;
\* and the count step of a vote request whose voter holds max_votes_per_user
\* votes or more ends the request with the limit error that carries the limit
\* (or a store error) and leaves the votes table alone.
C3_VotesWithinLimit ==
    [][/\ \A p \in DOMAIN polls, u \in Users :
            (/\ polls' = polls
             /\ existingVotes(votes, p, u) <= polls[p].max_votes_per_user)
            => existingVotes(votes', p, u) <= polls[p].max_votes_per_user
       /\ \A r \in Reqs :
            (/\ req[r].pc = "count"
             /\ req'[r] # req[r]
             /\ existingVotes(votes, req[r].poll_id, req[r].user) >= req[r].poll.max_votes_per_user)
            => /\ req'[r].pc = "done"
               /\ req'[r].resp \in
                     {Response(500, "Failed to check existing votes", 0),
                      Response(400, "You can only vote N times on this poll",
                               req[r].poll.max_votes_per_user)}
               /\ votes' = votes]_vars

\* a vote at the limit of a poll that allows two votes was refused
C3_Witness ==
    \E r \in Reqs, p \in DOMAIN polls, u \in Users :
        /\ req[r].pc = "done"
        /\ req[r].op = "castVote"
        /\ req[r].resp = Response(400, "You can only vote N times on this poll", 2)
        /\ polls[p].max_votes_per_user = 2
        /\ existingVotes(votes, p, u) = 2

\* C4: with overlapping vote requests a voter's votes on a poll can pass
\* max_votes_per_user (C4_Witness is such a state), and by no more than one
\* vote for each further request in flight: no step that leaves the polls
\* table alone takes the count past max_votes_per_user + (requests - 1).
C4_OvershootByOverlap ==
    [][\A p \in DOMAIN polls, u \in Users :
         (/\ polls' = polls
          /\ existingVotes(votes, p, u) <= polls[p].max_votes_per_user + Cardinality(Reqs) - 1)
         => existingVotes(votes', p, u) <= polls[p].max_votes_per_user + Cardinality(Reqs) - 1]_vars

\* two overlapping votes of one voter for two options both succeeded and the
\* voter holds more votes than the poll allows
C4_Witness ==
    \E p \in DOMAIN polls, u \in Users :
        /\ polls[p].vote_type = "multiple"
        /\ existingVotes(votes, p, u) > polls[p].max_votes_per_user
        /\ \A r \in Reqs :
              /\ req[r].pc = "done"
              /\ req[r].op = "castVote"
              /\ req[r].resp.status = 200
              /\ req[r].user = u
              /\ req[r].poll_id = p
        /\ req["r1"].option_id # req["r2"].option_id
        /\ \E r \in Reqs : req[r].overlapped

\* every row of the votes table is there once
UniqueVotes == \A v \in DOMAIN votes : votes[v] = 1

\* two vote requests that overlapped both succeeded with the same row, and
\* no select of theirs had failed
BothInserted ==
    \E r \in Reqs : \E q \in Reqs \ {r} :
        /\ req[r].pc = "done" /\ req[q].pc = "done"
        /\ req[r].op = "castVote" /\ req[q].op = "castVote"
        /\ req[r].resp.status = 200 /\ req[q].resp.status = 200
        /\ req[r].user = req[q].user
        /\ req[r].poll_id = req[q].poll_id
        /\ req[r].option_id = req[q].option_id
        /\ (req[r].overlapped \/ req[q].overlapped)
        /\ ~req[r].misread /\ ~req[q].misread

\* C5 as stated: the votes table holds each (poll, option, voter) row at most
\* once, and two overlapping votes of one voter for one option never both
\* succeed.
C5_OneOfTwoInserts == UniqueVotes /\ ~BothInserted

\* C5 as amended: the votes table holds each (poll, option, voter) row at most
\* once in every state, and an insert step that finds its row in the table
\* fails with "Failed to cast vote" and leaves the table alone; two
\* overlapping votes for one option both succeed only when the first row was
\* deleted in between.
C5_UniqueRows ==
    /\ []UniqueVotes
    /\ [][\A r \in Reqs :
            (/\ req[r].pc = "insert"
             /\ req'[r] # req[r]
             /\ BagIn(VoteRow(req[r].poll_id, req[r].option_id, req[r].user), votes))
            => /\ req'[r].pc = "done"
               /\ req'[r].resp.status = 500
               /\ req'[r].resp.error = "Failed to cast vote"
               /\ votes' = votes]_vars

\* of two overlapping votes one inserted its row and the other was stopped by
\* the duplicate key
C5_Witness ==
    \E r \in Reqs : \E q \in Reqs \ {r} :
        /\ req[r].pc = "done" /\ req[q].pc = "done"
        /\ req[r].op = "castVote" /\ req[q].op = "castVote"
        /\ req[r].resp.status = 200
        /\ req[q].resp = Response(500, "Failed to cast vote", 1)
        /\ (req[r].overlapped \/ req[q].overlapped)
        /\ CopiesIn(VoteRow(req[r].poll_id, req[r].option_id, req[r].user), votes) = 1

\* C6: between requests that run one after the other, no voter holds more
\* than one vote on a poll whose vote_type is single.
C6_SingleChoiceOneVote ==
    (\A r \in Reqs : req[r].pc \in {"idle", "done"})
    => \A p \in DOMAIN polls, u \in Users :
          polls[p].vote_type = "single" => existingVotes(votes, p, u) <= 1

\* expires_at is in the past
Expired(poll) == poll.expires_at # NoExpiry /\ poll.expires_at < now

\* C7: a vote request on a poll that is not active, or that has expired, ends
\* at once with an error and leaves the votes table alone, whoever the voter
\* is and whatever the vote type.
C7_ClosedPollRefuses ==
    [][\A r \in {q \in Reqs : Begins(q, "castVote")} :
       \A u \in Callers, p \in DOMAIN polls, o \in OptionIds \cup {NoOption} :
         (/\ polls[p].status # "active" \/ Expired(polls[p])
          /\ CastVoteFetch(r, u, p, o))
         => /\ req'[r].pc = "done"
            /\ req'[r].resp.status >= 400
            /\ votes' = votes]_vars

\* a vote on an active poll was refused because the poll had expired
C7_Witness ==
    \E r \in Reqs, p \in DOMAIN polls :
        /\ req[r].pc = "done"
        /\ req[r].op = "castVote"
        /\ req[r].resp = Response(400, "Poll has expired", 0)
        /\ polls[p].status = "active"
        /\ Expired(polls[p])

\* the status codes a vote request on a poll that does not exist can answer
\* with: not found, or 400 when no option is named, or a store error
MissingPollStatus(o) == IF o = NoOption THEN {400, 500} ELSE {404, 500}

\* C8: a vote request on a private poll by a user who does not own it ends at
\* once with a status code that a poll that does not exist can give (404 not
\* found), whatever the poll's status and expiry.
C8_PrivatePollLooksMissing ==
    [][\A r \in {q \in Reqs : Begins(q, "castVote")} :
       \A u \in Users, p \in DOMAIN polls, o \in OptionIds \cup {NoOption} :
         (/\ ~polls[p].is_public
          /\ polls[p].created_by # u
          /\ CastVoteFetch(r, u, p, o))
         => /\ req'[r].pc = "done"
            /\ req'[r].resp.status \in MissingPollStatus(o)]_vars

\* C9: a removeVote that the store carries out answers 200 and deletes the
\* rows of this voter on this poll, on the named option when one is named and
\* on every option otherwise, and no other row; it answers 200 also when no
\* row matches.  When the store fails the table is as before.
C9_RemoveVoteExact ==
    [][\A r \in {q \in Reqs : Begins(q, "removeVote")} :
       \A u \in Users, p \in PollIds, o \in OptionIds \cup {NoOption} :
         RemoveVote(r, u, p, o)
         => \/ /\ req'[r].resp = Response(500, "Failed to remove vote", 0)
               /\ votes' = votes
            \/ /\ req'[r].resp.status = 200
               /\ \A v \in DOMAIN votes \cup DOMAIN votes' :
                     CopiesIn(v, votes') =
                        IF v.poll_id = p /\ v.user_id = u /\ (o = NoOption \/ v.option_id = o)
                        THEN 0 ELSE CopiesIn(v, votes)]_vars

\* a removeVote deleted one row and left the voter's row on another option,
\* the voter's row on another poll and another voter's row on the same poll
C9_Witness ==
    \E r \in Reqs :
        /\ req[r].pc = "done"
        /\ req[r].op = "removeVote"
        /\ req[r].resp.status = 200
        /\ \E d \in DOMAIN req[r].before \ DOMAIN votes :
              /\ \E v \in DOMAIN votes :
                    v.poll_id = d.poll_id /\ v.user_id = d.user_id /\ v.option_id # d.option_id
              /\ \E v \in DOMAIN votes : v.poll_id # d.poll_id /\ v.user_id = d.user_id
              /\ \E v \in DOMAIN votes : v.poll_id = d.poll_id /\ v.user_id # d.user_id

\* C10: after an updatePoll that answers 200 the poll's option rows are the
\* non-blank submitted texts in their order with order_index 0..n-1, none of
\* them a row or an id that was there before, and no vote on the poll is
\* left.
C10_UpdateReplacesOptions ==
    [][\A r \in {q \in Reqs : Begins(q, "updatePoll") /\ req'[q].resp.status = 200} :
       \A u \in Users, p \in PollIds, body \in Bodies :
         UpdatePoll(r, u, p, body)
         => LET submitted == SelectSeq(body.options, LAMBDA t : t \notin {"", Blank})
                after == {x \in poll_options' : x.poll_id = p}
            IN /\ Cardinality(after) = Len(submitted)
               /\ \A i \in 1..Len(submitted) :
                     \E x \in after : x.text = submitted[i] /\ x.order_index = i - 1
               /\ after \cap poll_options = {}
               /\ {x.id : x \in after} \cap {x.id : x \in poll_options} = {}
               /\ \A v \in DOMAIN votes' : v.poll_id # p]_vars

\* an update answered 200 on a poll that had votes: the votes are gone and
\* the options A, B are rows with new ids
C10_Witness ==
    \E r \in Reqs :
        /\ req[r].pc = "done"
        /\ req[r].op = "updatePoll"
        /\ req[r].resp.status = 200
        /\ req[r].before # EmptyBag
        /\ votes = EmptyBag
        /\ {x.text : x \in poll_options} = {"A", "B"}
        /\ \A x \in poll_options : x.id > 2


\* the request that begins in slot r with this step is handled by op, for
\* user u on poll p
Handles(r, op, u, p) ==
    /\ Begins(r, op)
    /\ CASE op = "updatePoll" -> \E body \in Bodies : UpdatePoll(r, u, p, body)
         [] op = "DELETE" -> DeletePoll(r, u, p)
         [] op = "deletePoll" -> deletePoll(r, u, p)
         [] op = "updatePollStatus" -> \E st \in PollStatus : UpdatePollStatus(r, u, p, st)
         [] op = "createPoll" -> \E body \in Bodies : CreatePoll(r, u, body)
         [] op = "createPollAction" -> \E data \in Bodies : createPoll(r, u, data)

\* C11: an update, delete or status-change request of a signed-in user who is
\* not the creator of the poll ends with an error and leaves polls, options
\* and votes as they were; and every step that changes a poll's fields, its
\* options or its existence is a step of a request of its creator.
C11_OwnerOnlyMutation ==
    [][/\ \A r \in Reqs :
             \/ /\ req'[r].resp.status >= 400
                /\ polls' = polls
                /\ poll_options' = poll_options
                /\ votes' = votes
             \/ \A u \in Users, p \in DOMAIN polls :
                   ~(/\ polls[p].created_by # u
                     /\ \E op \in {"updatePoll", "DELETE", "deletePoll", "updatePollStatus"} :
                           Handles(r, op, u, p))
       /\ \A p \in DOMAIN polls \cup DOMAIN polls' :
             (\/ p \in DOMAIN polls /\ p \notin DOMAIN polls'
              \/ p \in DOMAIN polls' /\ p \notin DOMAIN polls
              \/ p \in DOMAIN polls /\ p \in DOMAIN polls' /\ polls'[p] # polls[p]
              \/ {o \in poll_options' : o.poll_id = p} # OptionsOf(p))
             => LET owner == IF p \in DOMAIN polls THEN polls[p].created_by
                             ELSE polls'[p].created_by
                IN \E r \in Reqs :
                   \E op \in {"updatePoll", "DELETE", "deletePoll", "updatePollStatus",
                              "createPoll", "createPollAction"} :
                      Handles(r, op, owner, p)]_vars

\* a user who is not the creator asked to delete a poll that has votes and
\* was refused
C11_Witness ==
    \E r \in Reqs, p \in DOMAIN polls :
        /\ req[r].pc = "done"
        /\ req[r].op = "DELETE"
        /\ req[r].resp = Response(403, "You can only delete polls you created", 0)
        /\ \E v \in DOMAIN votes : v.poll_id = p
        /\ OptionsOf(p) # {}

\* C12: a create request (POST /api/polls or the createPoll action) that
\* answers "Failed to create poll options" leaves no row of the new poll
\* behind: polls and poll_options are as before the request.
C12_CreateCompensates ==
    [][\A r \in {q \in Reqs : Begins(q, "createPoll") \/ Begins(q, "createPollAction")} :
         req'[r].resp.error = "Failed to create poll options"
         => /\ polls' = polls
            /\ poll_options' = poll_options]_vars

\* C13: a create request (POST /api/polls or the createPoll action) or an
\* update request that answers success leaves every poll it wrote with
\* 1 <= max_votes_per_user <= the number of the poll's options.
C13_MaxVotesWithinOptions ==
    [][\A r \in {q \in Reqs : /\ \/ Begins(q, "createPoll")
                                 \/ Begins(q, "createPollAction")
                                 \/ Begins(q, "updatePoll")
                              /\ req'[q].resp.status \in {200, 201}} :
       \A p \in DOMAIN polls' :
          (p \notin DOMAIN polls \/ polls'[p] # polls[p])
          => /\ 1 <= polls'[p].max_votes_per_user
             /\ polls'[p].max_votes_per_user <= Cardinality({o \in poll_options' : o.poll_id = p})]_vars

\* the submitted option texts that are not blank, in their order
NonBlank(options) == SelectSeq(options, LAMBDA t : t \notin {"", Blank})

\* a create request that keeps every rule of the specification
ValidRequest(body) ==
    /\ body.title.trimmed >= 3 /\ body.title.len <= 200
    /\ body.description <= 1000
    /\ Len(NonBlank(body.options)) \in 2..10
    /\ body.max_votes_per_user \in 1..Len(NonBlank(body.options))
    /\ body.expires_at = NoExpiry \/ body.expires_at > now

\* C14: a create request (POST /api/polls or the createPoll action) that keeps
\* every rule and has n non-blank options, 2 <= n <= 10, ends in success with
\* one new poll row and exactly n option rows of it, the non-blank texts in
\* submitted order with order_index 0..n-1 (or in a store error).
C14_CreatePersistsOptions ==
    [][\A r \in {q \in Reqs : Begins(q, "createPoll") \/ Begins(q, "createPollAction")} :
       \A u \in Users, body \in {b \in Bodies : ValidRequest(b)} :
          (CreatePoll(r, u, body) \/ createPoll(r, u, body))
          => \/ req'[r].resp.status = 500
             \/ LET submitted == NonBlank(body.options)
                    after == {x \in poll_options' : x.poll_id = nextPollId}
                IN /\ req'[r].resp.status \in {200, 201}
                   /\ DOMAIN polls' = DOMAIN polls \cup {nextPollId}
                   /\ nextPollId \notin DOMAIN polls
                   /\ poll_options' \ after = poll_options
                   /\ Cardinality(after) = Len(submitted)
                   /\ \A i \in 1..Len(submitted) :
                         \E x \in after : x.text = submitted[i] /\ x.order_index = i - 1]_vars

\* the rule a create request breaks first, in the order title, description,
\* number of non-blank options; "none" when it breaks none of them
FirstBroken(body) ==
    IF body.title.len < 3 THEN "title too short"
    ELSE IF body.title.len > 200 THEN "title too long"
    ELSE IF body.description > 1000 THEN "description too long"
    ELSE IF Len(NonBlank(body.options)) < 2 THEN "too few options"
    ELSE IF Len(NonBlank(body.options)) > 10 THEN "too many options"
    ELSE "none"

\* the rule an error message of the create handlers names
RuleOf(error) ==
    CASE error \in {"Title must be at least 3 characters long",
                    "Poll title must be at least 3 characters long"} -> "title too short"
      [] error \in {"Title must be less than 200 characters",
                    "Poll title must be less than 200 characters"} -> "title too long"
      [] error \in {"Description must be less than 1000 characters",
                    "Poll description must be less than 1000 characters"} -> "description too long"
      [] error \in {"At least 2 options are required", "At least 2 valid options are required",
                    "Poll must have at least 2 options",
                    "Poll must have at least 2 valid options"} -> "too few options"
      [] error \in {"Maximum 10 options allowed",
                    "Poll cannot have more than 10 options"} -> "too many options"
      [] OTHER -> "none"

\* C15: a create request (POST /api/polls or the createPoll action) of a
\* signed-in user that breaks a rule on the title, the description or the
\* number of non-blank options ends with the error of the first rule it
\* breaks, in that order (or with a store error from before the checks), and
\* leaves polls and poll_options as they were.
C15_FirstFailingCheck ==
    [][\A r \in {q \in Reqs : Begins(q, "createPoll") \/ Begins(q, "createPollAction")} :
       \A u \in Users, body \in {b \in Bodies : FirstBroken(b) # "none"} :
          (CreatePoll(r, u, body) \/ createPoll(r, u, body))
          => /\ \/ req'[r].resp.status = 500
                \/ /\ req'[r].resp.status = 400
                   /\ RuleOf(req'[r].resp.error) = FirstBroken(body)
             /\ polls' = polls
             /\ poll_options' = poll_options]_vars

\* C16: a delete request of the creator (DELETE /api/polls/[id] or the
\* deletePoll action) that answers success leaves no row of the poll, no
\* option of it and no vote on it or on one of its options, so that fetching
\* the poll finds nothing; the rows, options and votes of every other poll
\* are as before.
C16_DeleteCascades ==
    [][\A r \in {q \in Reqs : /\ Begins(q, "DELETE") \/ Begins(q, "deletePoll")
                              /\ req'[q].resp.status = 200} :
       \A u \in Users, p \in PollIds :
          (DeletePoll(r, u, p) \/ deletePoll(r, u, p))
          => /\ p \in DOMAIN polls /\ polls[p].created_by = u
             /\ p \notin DOMAIN polls'
             /\ \A o \in poll_options' : o.poll_id # p
             /\ \A v \in DOMAIN votes' : v.poll_id # p /\ v.option_id \notin OptionIdsOf(p)
             /\ \A q \in DOMAIN polls \ {p} :
                   /\ q \in DOMAIN polls' /\ polls'[q] = polls[q]
                   /\ {o \in poll_options' : o.poll_id = q} = OptionsOf(q)
                   /\ BagFilter(votes', LAMBDA v : v.poll_id = q)
                        = BagFilter(votes, LAMBDA v : v.poll_id = q)]_vars

\* a poll with votes was deleted and the other poll still has its options and
\* its votes
C16_Witness ==
    \E r \in Reqs, p \in PollIds, q \in DOMAIN polls :
        /\ req[r].pc = "done"
        /\ req[r].op \in {"DELETE", "deletePoll"}
        /\ req[r].resp.status = 200
        /\ p \notin DOMAIN polls
        /\ \E v \in DOMAIN req[r].before : v.poll_id = p
        /\ \E v \in DOMAIN votes : v.poll_id = q
        /\ OptionsOf(q) # {}
        /\ OptionsOf(p) = {}

\* C17: a status change by the creator of a poll, from any status to any
\* status, succeeds and leaves the poll with the new status and its other
\* fields as they were (or ends in a store error that leaves the poll as it
\* was); no transition is refused.
C17_AnyStatusTransition ==
    [][\A r \in {q \in Reqs : Begins(q, "updatePollStatus")} :
       \A p \in DOMAIN polls, st \in PollStatus :
          UpdatePollStatus(r, polls[p].created_by, p, st)
          => \/ /\ req'[r].resp = Response(500, "Failed to update poll status", 0)
                /\ polls' = polls
             \/ /\ req'[r].resp.status = 200
                /\ polls' = [polls EXCEPT ![p] = [polls[p] EXCEPT !.status = st]]]_vars

\* an archived poll was made active again
C17_Witness ==
    \E r \in Reqs, p \in DOMAIN polls :
        /\ req[r].pc = "done"
        /\ req[r].op = "updatePollStatus"
        /\ req[r].resp.status = 200
        /\ req[r].poll.status = "archived"
        /\ polls[p].status = "active"

\* the rows of the votes table on poll p, and on its option o
VotesOnPoll(p) == BagCardinality(BagFilter(votes, LAMBDA v : v.poll_id = p))
VotesOnOption(p, o) ==
    BagCardinality(BagFilter(votes, LAMBDA v : v.poll_id = p /\ v.option_id = o))

\* h hundredths of a percent is count / total * 100 rounded to two decimals
IsRounded(h, count, total) ==
    LET d == h * total - count * 10000
    IN 2 * (IF d < 0 THEN 0 - d ELSE d) <= total

\* C18: get_poll_results returns one row for every option of the poll and no
\* other row; the row carries the option's text, the number of vote rows on
\* the option, and that number as a percentage of the votes on the poll
\* rounded to two decimals, or 0 when the poll has no votes.
C18_OneRowPerOption ==
    results # NoResults
    => LET p == results.poll_id
           rows == results.rows
       IN /\ Len(rows) = Cardinality(OptionsOf(p))
          /\ \A o \in OptionsOf(p) :
                \E i \in 1..Len(rows) :
                   /\ rows[i].option_id = o.id
                   /\ rows[i].option_text = o.text
                   /\ rows[i].vote_count = VotesOnOption(p, o.id)
                   /\ IF VotesOnPoll(p) = 0 THEN rows[i].percentage = 0
                      ELSE IsRounded(rows[i].percentage, VotesOnOption(p, o.id), VotesOnPoll(p))

\* a tally of three options with 2, 1 and 0 of 3 votes: 66.67, 33.33 and 0
C18_Witness ==
    /\ results.poll_id = 1
    /\ Len(results.rows) = 3
    /\ {<<results.rows[i].vote_count, results.rows[i].percentage>> : i \in 1..3}
         = {<<2, 6667>>, <<1, 3333>>, <<0, 0>>}

\* C19 as stated: the rows come by descending vote count, and the rows with
\* equal vote count come by display order, or all of them by option text,
\* ascending and never equal.
C19_TallyOrder ==
    results # NoResults
    => LET rows == results.rows
           n == Len(rows)
       IN /\ \A i, j \in 1..n : i < j => rows[i].vote_count >= rows[j].vote_count
          /\ \/ \A i, j \in 1..n :
                   (i < j /\ rows[i].vote_count = rows[j].vote_count)
                   => OrderIndexOf(poll_options, rows[i].option_id)
                        < OrderIndexOf(poll_options, rows[j].option_id)
             \/ \A i, j \in 1..n :
                   (i < j /\ rows[i].vote_count = rows[j].vote_count)
                   => TextRank(rows[i].option_text) < TextRank(rows[j].option_text)

RECURSIVE SumPercentages(_)
SumPercentages(rows) ==
    IF rows = <<>> THEN 0 ELSE Head(rows).percentage + SumPercentages(Tail(rows))

\* C20: when the poll has votes the percentages of the tally, in hundredths,
\* add up to 10000 give or take half a hundredth for every row; when it has
\* none every percentage is 0.
C20_PercentagesSum ==
    results # NoResults
    => LET rows == results.rows
           d == SumPercentages(rows) - 10000
       IN IF VotesOnPoll(results.poll_id) > 0
          THEN 2 * (IF d < 0 THEN 0 - d ELSE d) <= Len(rows)
          ELSE \A i \in 1..Len(rows) : rows[i].percentage = 0

\* three options with one vote each: 33.33 three times, 99.99 in all
C20_Witness ==
    /\ results.poll_id = 1
    /\ Len(results.rows) = 3
    /\ VotesOnPoll(1) = 3
    /\ \A i \in 1..3 : results.rows[i].percentage = 3333
    /\ SumPercentages(results.rows) = 9999

RECURSIVE SumVoteCounts(_)
SumVoteCounts(rows) ==
    IF rows = <<>> THEN 0 ELSE Head(rows).vote_count + SumVoteCounts(Tail(rows))

\* C21: an answer 200 of GET /api/polls/[id]/results carries as totalVotes the
\* sum of the vote counts of its tally rows, as uniqueVoters the number of
\* voters who hold a vote on the poll, and as userVotes the option ids on
\* which the caller holds a vote, none for the anonymous caller.
C21_ResultsTotals ==
    [][\A r \in {q \in Reqs : Begins(q, "getResults") /\ req'[q].resp.status = 200} :
       \A u \in Callers, p \in DOMAIN polls :
          GetResults(r, u, p)
          => /\ reply'.totalVotes = SumVoteCounts(reply'.results)
             /\ reply'.uniqueVoters =
                   Cardinality({v.user_id : v \in {x \in DOMAIN votes : x.poll_id = p}})
             /\ reply'.userVotes =
                   SetToBag({o \in OptionIds : u # NoUser /\ BagIn(VoteRow(p, o, u), votes)})]_vars

\* the errors that tell the caller to sign in
AuthErrors ==
    {"Authentication required", "You must be logged in to create a poll",
     "You must be logged in to delete a poll", "You must be logged in to update a poll"}

\* with this step a request that changes the store begins in slot r for the
\* caller who is not signed in
AnonymousMutation(r) ==
    \/ /\ Begins(r, "castVote")
       /\ \E p \in PollIds, o \in OptionIds \cup {NoOption} : CastVoteFetch(r, NoUser, p, o)
    \/ /\ Begins(r, "removeVote")
       /\ \E p \in PollIds, o \in OptionIds \cup {NoOption} : RemoveVote(r, NoUser, p, o)
    \/ \E op \in {"updatePoll", "DELETE", "deletePoll", "updatePollStatus"} :
          \E p \in PollIds : Handles(r, op, NoUser, p)
    \/ \E op \in {"createPoll", "createPollAction"} : Handles(r, op, NoUser, 0)

\* C22: a request to create, update or delete a poll, to change its status,
\* to cast a vote or to remove one, made without a signed-in user, ends at
\* once with an authentication error and leaves every table as it was.
C22_AnonymousRefused ==
    [][\A r \in Reqs :
         AnonymousMutation(r)
         => /\ req'[r].pc = "done"
            /\ req'[r].resp.status = 401
            /\ req'[r].resp.error \in AuthErrors
            /\ UNCHANGED store]_vars

\* the anonymous caller asked to remove a vote from a poll that has votes, and
\* to delete it, and was refused
C22_Witness ==
    /\ votes # EmptyBag
    /\ \E r \in Reqs :
          /\ req[r].pc = "done"
          /\ req[r].op \in {"removeVote", "deletePoll"}
          /\ req[r].resp.status = 401
          /\ req[r].resp.error \in AuthErrors

\* an id that no poll has
NoPoll == 0

\* C23: GET /api/polls/[id] and GET /api/polls/[id]/results for a private
\* poll, asked by anyone but its creator, the anonymous caller included,
\* answer what they answer for a poll that does not exist, 404 "Poll not
\* found" (or the store error of the fetch), with nothing of the poll, its
\* options, its votes or its tally in the body.
C23_PrivatePollHidden ==
    [][\A r \in {q \in Reqs : Begins(q, "getPoll") \/ Begins(q, "getResults")} :
       \A u \in Callers, p \in DOMAIN polls :
          (/\ ~polls[p].is_public
           /\ polls[p].created_by # u
           /\ GetPoll(r, u, p) \/ GetResults(r, u, p))
          => /\ reply' = NoReply
             /\ req'[r].resp \in {Response(404, "Poll not found", 0),
                                  Response(500, "Failed to fetch poll", 0)}
             /\ Answer(req'[r].resp, reply') \in
                   IF req'[r].op = "getPoll" THEN PollAnswers(u, NoPoll)
                   ELSE ResultsAnswers(u, NoPoll)]_vars

\* the results of a private poll that has votes were asked for and the
\* answer was 404 with an empty body
C23_Witness ==
    \E r \in Reqs, p \in DOMAIN polls :
        /\ ~polls[p].is_public
        /\ VotesOfPoll(votes, p) # EmptyBag
        /\ req[r].pc = "done"
        /\ req[r].op = "getResults"
        /\ req[r].resp = Response(404, "Poll not found", 0)
        /\ reply = NoReply

\* a call of ensureProfileExists that is over
ProfileCallDone(r) == req[r].op = "ensureProfileExists" /\ req[r].pc = "done"

\* C24: every call of ensureProfileExists for a signed-in user, whether the
\* calls come one after the other or interleave, reports success unless the
\* store itself fails, and leaves the profile of the user in the table; and
\* a call reports created = true only when it found no profile and inserted
\* one.
C24_EnsureProfileIdempotent ==
    /\ [](\A r \in Reqs :
            ProfileCallDone(r)
            => \/ req[r].resp.status = 200 /\ req[r].user \in profiles
               \/ req[r].resp.status = 500 /\ req[r].resp.detail = 0)
    /\ [][\A r \in Reqs :
            (req[r].op = "ensureProfileExists" /\ req'[r].resp = ProfileResult(TRUE))
            => \/ req[r].resp = ProfileResult(TRUE)
               \/ req[r].user \notin profiles /\ req[r].user \in profiles']_vars

\* C25: an answer 200 of GET /api/polls to a request with a status parameter
\* lists only polls of that status, whoever asks, with or without userId.
C25_ListByStatus ==
    [][\A r \in {q \in Reqs : Begins(q, "listPolls") /\ req'[q].resp.status = 200} :
       \A u \in Callers, userId \in Users \cup {NoParam}, status \in PollStatus :
          ListPolls(r, u, userId, status)
          => \A p \in reply'.polls : polls[p].status = status]_vars

\* the options of poll p are between 2 and 10 and their order_index values
\* are 0..n-1
OptionsWellFormed(O, p) ==
    LET mine == {o \in O : o.poll_id = p}
        n == Cardinality(mine)
    IN /\ n >= 2 /\ n <= 10
       /\ {o.order_index : o \in mine} = 0..(n - 1)

\* C26: whenever no request is under way, every poll in the table has
\* between 2 and 10 options with order_index 0..n-1, also after a request
\* that failed.
C26_NoPartialPolls ==
    (\A r \in Reqs : req[r].pc \in {"idle", "done"})
    => \A p \in DOMAIN polls : OptionsWellFormed(poll_options, p)

\* C27: with requests one after the other, a vote request that ends with an
\* error leaves the votes table as the request found it; on a single-choice
\* poll the vote the voter held is still there.
C27_FailedVoteChangesNothing ==
    [][\A r \in Reqs :
         /\ (Begins(r, "castVote") /\ req'[r].resp.status >= 400) => votes' = votes
         /\ (CastVoteEnds(r) /\ req'[r].resp.status >= 400) => votes' = req[r].before]_vars

\* the fields of body are all left out but the title and the options
OmitsAll(body) ==
    /\ body.status = Undefined /\ body.vote_type = Undefined
    /\ body.max_votes_per_user = 0 /\ body.is_public = Undefined
    /\ body.expires_at = NoExpiry /\ body.description = 0

\* C28: an updatePoll that answers 200 leaves in every settable field of the
\* poll the value of the body, and the default where the body leaves the
\* field out: status active, vote_type single, max_votes_per_user 1,
\* is_public true, description and expires_at null; the stored value of a
\* field that is left out is not kept.
C28_UpdateOverwritesAll ==
    [][\A r \in {q \in Reqs : Begins(q, "updatePoll") /\ req'[q].resp.status = 200} :
       \A u \in Users, p \in DOMAIN polls, body \in Bodies :
          UpdatePoll(r, u, p, body)
          => /\ polls'[p] =
                  [status |-> IF body.status = Undefined THEN "active" ELSE body.status,
                   vote_type |-> IF body.vote_type = Undefined THEN "single" ELSE body.vote_type,
                   max_votes_per_user |-> IF body.max_votes_per_user = 0 THEN 1
                                          ELSE body.max_votes_per_user,
                   is_public |-> IF body.is_public = Undefined THEN TRUE
                                 ELSE body.is_public = "true",
                   expires_at |-> IF body.expires_at = NoExpiry THEN NoExpiry
                                  ELSE body.expires_at,
                   description |-> body.description,
                   created_by |-> polls[p].created_by]
             /\ OmitsAll(body) =>
                   /\ polls'[p].status = "active" /\ polls'[p].is_public
                   /\ polls'[p].vote_type = "single" /\ polls'[p].max_votes_per_user = 1
                   /\ polls'[p].expires_at = NoExpiry /\ polls'[p].description = 0]_vars

\* an update made a poll that was private, closed, with a description, an
\* expiry and two votes allowed into a public, active poll with none of them
C28_Witness ==
    \E r \in Reqs, p \in DOMAIN polls :
        /\ req[r].pc = "done"
        /\ req[r].op = "updatePoll"
        /\ req[r].resp.status = 200
        /\ ~req[r].poll.is_public /\ req[r].poll.status = "closed"
        /\ req[r].poll.description # 0 /\ req[r].poll.expires_at # NoExpiry
        /\ req[r].poll.max_votes_per_user = 2
        /\ polls[p].is_public /\ polls[p].status = "active"
        /\ polls[p].description = 0 /\ polls[p].expires_at = NoExpiry
        /\ polls[p].max_votes_per_user = 1

\* C29: in every reachable state each vote row is on a poll that exists and
\* on an option that exists and belongs to that poll, and each option row
\* belongs to a poll that exists.
C29_NoOrphans ==
    /\ \A v \in DOMAIN votes :
          /\ v.poll_id \in DOMAIN polls
          /\ \E o \in poll_options : o.id = v.option_id /\ o.poll_id = v.poll_id
    /\ \A o \in poll_options : o.poll_id \in DOMAIN polls

\* two polls with votes on both, every option id of the model an option of
\* one of them, and a vote that named a poll with an option of the other
\* poll was refused
C29_Witness ==
    \E r \in Reqs :
        /\ req[r].pc = "done"
        /\ req[r].op = "castVote"
        /\ req[r].resp = Response(404, "Poll or option not found", 0)
        /\ Cardinality(DOMAIN polls) = 2
        /\ \A p \in DOMAIN polls : OptionsOf(p) # {} /\ VotesOfPoll(votes, p) # EmptyBag
        /\ Cardinality(poll_options) >= 4

\* C30: no step of a vote request or of a removeVote request changes the
\* vote rows of a poll that is not active or that has expired.
C30_ClosedTallyFixed ==
    [][\A r \in {q \in Reqs : req'[q] # req[q] /\ req'[q].op \in {"castVote", "removeVote"}} :
       \A p \in DOMAIN polls :
          (polls[p].status # "active" \/ Expired(polls[p]))
          => VotesOfPoll(votes', p) = VotesOfPoll(votes, p)]_vars

=============================================================================
